---- MODULE Spec2Model ----
(***************************************************************************)
(* django_quicky.models: the schema patch engine (patch_model) and the     *)
(* projection engine (JSONDataMixin).                                      *)
(*                                                                         *)
(* Spec      : a model class patched by a sequence of patch_model calls.   *)
(* SpecProj  : the mixin's methods called on entities, one call at a time. *)
(* SpecConc  : two threads projecting entities they share.                 *)
(***************************************************************************)
EXTENDS Integers, Sequences, FiniteSets, TLC

(***************************************************************************)
(* Bounds of the model.                                                    *)
(***************************************************************************)
MaxMembers == 3          \* members declared by all the patch classes of one behaviour

(***************************************************************************)
(* Values.                                                                 *)
(***************************************************************************)
\* getattr(model_to_patch, name, None): the default when the name is missing
None == [kind |-> "None"]

Suffix == "__overridden"

\* Names a patch class may declare: two field names (one plain, one
\* many-to-many on the patched model), a method, the method's alias, and a
\* class attribute whose value is falsy.
FieldNames == {"email", "tags"}
AttrNames  == {"save", "save" \o Suffix, "show_json_comment"}

\* Names every class statement puts in the class __dict__
DunderNames == {"__module__", "__doc__"}

\* isinstance(obj, Field)
IsField(obj) == obj.kind = "Field"

\* isinstance(obj, (types.FunctionType, property, staticmethod, classmethod))
IsCallable(obj) == obj.kind \in {"function", "property", "staticmethod", "classmethod"}

\* Python truth value of an attribute: None, False and empty containers are
\* falsy; functions, methods, properties and the like are truthy.
Truthy(v) ==
  CASE v.kind = "None" -> FALSE
    [] v.kind = "data" -> v.truthy
    [] OTHER           -> TRUE

(***************************************************************************)
(* State of the patch engine.                                              *)
(***************************************************************************)
VARIABLES
  local_fields,         \* model_to_patch._meta.local_fields
  local_many_to_many,   \* model_to_patch._meta.local_many_to_many
  attrs,                \* attribute table of model_to_patch (own and inherited)
  creation_counter,     \* Field.creation_counter: next declaration order
  n_patches,            \* number of patch_model calls made
  n_members,            \* number of patch class members merged so far
  pre,                  \* history: the schema just before the last patch_model call
  last_patch,           \* history: class_to_patch_with of the last call, in iteration order
  overrode,             \* history: names some patch overrode with a callable
  bound,                \* history: names some patch set as a class attribute
  before_last           \* history: name -> attribute it had before the last patch overriding it

patchvars == <<local_fields, local_many_to_many, attrs, creation_counter, n_patches, n_members,
               pre, last_patch, overrode, bound, before_last>>

\* The schema as one value
Schema == [local_fields |-> local_fields,
           local_many_to_many |-> local_many_to_many,
           attrs |-> attrs]

\* What the class holds under a name: model_to_patch.__dict__ and the
\* __dict__ of its bases, None when the name is missing
class_dict(tbl, name) == IF name \in DOMAIN tbl THEN tbl[name] ELSE None

\* Attribute access on a class binds what it finds: a function comes out as
\* an unbound method, a staticmethod as its function, a classmethod as a
\* method bound to the class; a property and a plain value come out as
\* they are.
__get__(v) ==
  CASE v.kind = "function"     -> [v EXCEPT !.kind = "unbound_method"]
    [] v.kind = "staticmethod" -> [v EXCEPT !.kind = "function"]
    [] v.kind = "classmethod"  -> [v EXCEPT !.kind = "bound_method"]
    [] OTHER                   -> v

\* getattr(model_to_patch, name, None)
getattr(tbl, name) == __get__(class_dict(tbl, name))

\* types.UnboundMethodType(obj, None, model_to_patch)
UnboundMethodType(obj) == [obj EXCEPT !.kind = "unbound_method"]

\* setattr(model_to_patch, name, value)
setattr(tbl, name, value) ==
  [n \in DOMAIN tbl \cup {name} |-> IF n = name THEN value ELSE tbl[n]]

\* field_list.pop(i)
pop(list, i) == [k \in 1..(Len(list) - 1) |-> IF k < i THEN list[k] ELSE list[k + 1]]

\* match = ((i, f) for i, f in enumerate(field_list) if f.name == name)
match(field_list, name) == {i \in 1..Len(field_list) : field_list[i].name = name}

\* match.next(): the first index, when there is one
first(S) == CHOOSE i \in S : \A j \in S : i <= j

\* bisect(list, field): fields compare by creation_counter (bisect_right)
bisect(list, field) ==
  Cardinality({k \in 1..Len(list) : list[k].creation_counter <= field.creation_counter}) + 1

\* list.insert(i, field)
insert(list, i, field) ==
  [k \in 1..(Len(list) + 1) |->
     IF k < i THEN list[k] ELSE IF k = i THEN field ELSE list[k - 1]]

\* model_to_patch.add_to_class(name, obj): a field goes through
\* contribute_to_class into the field list of its kind, kept ordered by
\* creation_counter; anything else is set as a class attribute.
add_to_class(s, name, obj) ==
  IF IsField(obj)
  THEN LET f == [obj EXCEPT !.name = name] IN
       IF f.m2m
       THEN [s EXCEPT !.local_many_to_many = insert(@, bisect(@, f), f)]
       ELSE [s EXCEPT !.local_fields = insert(@, bisect(@, f), f)]
  ELSE [s EXCEPT !.attrs = setattr(@, name, obj)]

\* field_lists = (patched_meta.local_fields, patched_meta.local_many_to_many)
field_lists(s) == <<s.local_fields, s.local_many_to_many>>

\* Lines 110-122: "for field_list in field_lists: try ... finally: break".
\* The break in the finally clause leaves the loop after the first list
\* whether or not match.next() raised StopIteration, which it also swallows:
\* only field_lists[0] is ever examined.  The result is the pair
\* <<schema, obj>> after the loop.
SearchFieldLists(s, name, obj) ==
  LET field_list == field_lists(s)[1]
      m == match(field_list, name)
  IN IF m # {}
     THEN LET i == first(m)
              field == field_list[i]
          IN <<[s EXCEPT !.local_fields = pop(field_list, i)],
               [obj EXCEPT !.creation_counter = field.creation_counter]>>
     ELSE <<s, obj>>

\* RenameOld without the setattr of line 131
RenameOld_dropped(s, name) == s

\* RenameOld keeping an alias that already exists
RenameOld_keep_first(s, name) ==
  LET attr == getattr(s.attrs, name)
  IN IF Truthy(attr) /\ (name \o Suffix) \notin DOMAIN s.attrs
     THEN [s EXCEPT !.attrs = setattr(@, name \o Suffix, attr)]
     ELSE s

\* Lines 128-131: rename the potential old method
RenameOld(s, name) ==
  LET attr == getattr(s.attrs, name)
  IN IF Truthy(attr)
     THEN [s EXCEPT !.attrs = setattr(@, name \o Suffix, attr)]
     ELSE s

\* Lines 134-135: a function is bound to the model as an unbound method
BindNew(obj) == IF obj.kind = "function" THEN UnboundMethodType(obj) ELSE obj

\* One iteration of the loop of patch_model (lines 105-138)
PatchMember(s, name, obj) ==
  IF IsField(obj)
  THEN LET r == SearchFieldLists(s, name, obj) IN add_to_class(r[1], name, r[2])
  ELSE IF IsCallable(obj)
  THEN add_to_class(RenameOld(s, name), name, BindNew(obj))
  ELSE add_to_class(s, name, obj)

\* patch_model(model_to_patch, class_to_patch_with): items is
\* class_to_patch_with.__dict__.iteritems() in iteration order
RECURSIVE patch_model(_, _)
patch_model(s, items) ==
  IF items = <<>> THEN s
  ELSE patch_model(PatchMember(s, items[1].name, items[1].obj), Tail(items))

(***************************************************************************)
(* The patch classes the model draws from.                                 *)
(***************************************************************************)
\* The objects of a patch class: g is the number of the patch class, k the
\* number of fields instantiated before this one (Field.__init__ takes the
\* next creation_counter).
FieldObj(n, g, k, m2m) ==
  [kind |-> "Field", name |-> n, gen |-> g, m2m |-> m2m,
   creation_counter |-> creation_counter + k]
CallableObj(kind, n, g) == [kind |-> kind, name |-> n, gen |-> g]
DataObj(n, g, t) == [kind |-> "data", name |-> n, gen |-> g, truthy |-> t]

\* The objects a patch class can bind to the name n
MemberObjs(n, g, k) ==
  IF n \in FieldNames
  THEN {FieldObj(n, g, k, m2m) : m2m \in BOOLEAN}
  ELSE IF n = "show_json_comment"
  THEN {CallableObj("property", n, g), DataObj(n, g, TRUE)}
  ELSE IF n = "save"
  THEN {CallableObj(kind, n, g) : kind \in {"function", "staticmethod", "classmethod"}}
  ELSE {CallableObj("function", n, g)}

NumFields(items) == Cardinality({j \in 1..Len(items) : IsField(items[j].obj)})

NamesOf(items) == {items[j].name : j \in 1..Len(items)}

\* The members a class statement declares: len members of distinct names,
\* in the order iteritems() yields them
RECURSIVE PatchClasses(_, _)
PatchClasses(g, len) ==
  IF len = 0 THEN {<<>>}
  ELSE UNION {UNION {{Append(items, [name |-> n, obj |-> o]) :
                        o \in MemberObjs(n, g, NumFields(items))} :
                     n \in (FieldNames \cup AttrNames) \ NamesOf(items)} :
              items \in PatchClasses(g, len - 1)}

\* The docstring of a patch class: None when it has none
Docstrings(g) == {None, DataObj("__doc__", g, TRUE)}

\* class_to_patch_with.__dict__.iteritems() of an old-style class: beside
\* the declared members it yields __module__ and __doc__.  Both are set as
\* plain class attributes under names no other member has, so the place
\* where the iteration yields them changes nothing: they are put first and
\* last.
iteritems(items, g, doc) ==
  <<[name |-> "__module__", obj |-> DataObj("__module__", g, TRUE)]>>
    \o items \o <<[name |-> "__doc__", obj |-> doc]>>

(***************************************************************************)
(* The projection engine (JSONDataMixin): entities.                        *)
(***************************************************************************)
VARIABLES
  fields_cfg,       \* class -> [full, simple]: full_info_fields and simple_info_fields
  is_simple_info,   \* instance -> x._state.is_simple_info, for the instances that have it set
  ret,              \* history: the last call of the mixin and what it returned
  threads,          \* thread -> its stack of projection calls and where each stands
  last_writer       \* history: instance -> thread that last set its is_simple_info

pvars == <<fields_cfg, is_simple_info, ret>>

cvars == <<threads, last_writer>>

vars == <<patchvars, pvars, cvars>>

Classes == {"Author", "Book"}
Instances == {"a1", "b1", "b2"}

ClassOf(x) == IF x = "a1" THEN "Author" ELSE "Book"

Dot == "."

\* Attribute values of the instances
NoneV == [kind |-> "None"]
Value(v) == [kind |-> "value", v |-> v]
Inst(x) == [kind |-> "instance", to |-> x]
Manager(xs) == [kind |-> "manager", all |-> xs]
Method(name, desc, result) ==
  [kind |-> "method", name |-> name, short_description |-> desc, result |-> result]

\* Results of a projection
Map(m) == [kind |-> "map", m |-> m]
List(l) == [kind |-> "list", l |-> l]
EmptyMap == [k \in {} |-> NoneV]

\* The attributes each instance has (hasattr / getattr).  An author has
\* books (a reverse foreign-key manager) and drafts; a book has an author
\* and, possibly, an editor.
AttrTable(x) ==
  CASE x = "a1" ->
         [n \in {"name", "nick", "book_set", "drafts", "get_display"} |->
            CASE n = "name" -> Value("Ann")
              [] n = "nick" -> Value("")
              [] n = "book_set" -> Manager(<<"b1", "b2">>)
              [] n = "drafts" -> Manager(<<"b2">>)
              [] OTHER -> Method("display", "Display name", Value("Ann!"))]
    [] OTHER ->
         [n \in {"title", "author", "editor"} |->
            CASE n = "title" -> Value(IF x = "b1" THEN "T1" ELSE "T2")
              [] n = "author" -> Inst("a1")
              [] OTHER -> NoneV]

\* cls._meta.local_fields of the entity classes
LocalFields(cls) ==
  IF cls = "Author"
  THEN <<[name |-> "name", verbose_name |-> "Name", fk |-> FALSE],
         [name |-> "nick", verbose_name |-> "Nick", fk |-> FALSE]>>
  ELSE <<[name |-> "title", verbose_name |-> "Title", fk |-> FALSE],
         [name |-> "author", verbose_name |-> "Author", fk |-> TRUE],
         [name |-> "editor", verbose_name |-> "Editor", fk |-> TRUE]>>

\* show_json_comment of the entity classes
show_json_comment(cls) == cls = "Book"

\* Python truth value of an attribute value: None and "" are falsy
IsTrue(v) ==
  CASE v.kind = "None"  -> FALSE
    [] v.kind = "value" -> v.v # ""
    [] OTHER            -> TRUE

\* hasattr(self, name)
hasattr(x, name) == name \in DOMAIN AttrTable(x)

\* getattr(v, extra, None) on an instance
getattr_or_none(x, name) == IF hasattr(x, name) THEN AttrTable(x)[name] ELSE NoneV

\* find_field (lines 146-151)
find_field(cls, name) ==
  LET S == {i \in 1..Len(LocalFields(cls)) : LocalFields(cls)[i].name = name}
  IN IF S = {} THEN NoneV ELSE LocalFields(cls)[first(S)]

\* isinstance(field, models.ForeignKey)
IsForeignKey(field) == field # NoneV /\ field.fk

\* name.find('.') != -1, a name being a sequence of words and dots
find_dot(name) == \E i \in 1..Len(name) : name[i] = Dot

RECURSIVE Join(_)
Join(ws) == IF ws = <<>> THEN "" ELSE ws[1] \o Join(Tail(ws))

\* name.split('.')
RECURSIVE split(_)
split(name) ==
  IF ~find_dot(name) THEN <<Join(name)>>
  ELSE LET i == first({k \in 1..Len(name) : name[k] = Dot})
       IN <<Join(SubSeq(name, 1, i - 1))>> \o split(SubSeq(name, i + 1, Len(name)))

\* getattr(self._state, 'is_simple_info', True)
StateMode(st, x) == IF x \in DOMAIN st THEN st[x] ELSE TRUE

\* An assignment to x._state.is_simple_info that is lost
SetStateMode_lost(st, x, b) == st

\* x._state.is_simple_info = b
SetStateMode(st, x, b) == [y \in DOMAIN st \cup {x} |-> IF y = x THEN b ELSE st[y]]

\* get_full_info_fields (lines 153-155)
get_full_info_fields(cfg, cls) == cfg[cls].full

\* get_simple_info_fields without the fallback to full_info_fields
get_simple_info_fields_only(cfg, cls) == cfg[cls].simple

\* get_simple_info_fields (lines 157-160): simple_info_fields or full_info_fields
get_simple_info_fields(cfg, cls) ==
  IF cfg[cls].simple # <<>> THEN cfg[cls].simple ELSE cfg[cls].full

(***************************************************************************)
(* The projection engine: _get_field_data, _get_fields_data and the entry  *)
(* points.  Every operator takes the view modes st it starts from and      *)
(* returns a record: the view modes it leaves (st), its return value (v),  *)
(* the exception it raised if any (raised), and, as history, the nested    *)
(* json_data calls it made (log) and the deepest nesting of projection     *)
(* calls it reached (depth).                                               *)
(***************************************************************************)
\* Nested projection calls the interpreter allows before it raises
\* RuntimeError (maximum recursion depth exceeded)
RecursionLimit == 4

\* Projections the threads start in one behaviour
MaxProjections == 2

Max(a, b) == IF a >= b THEN a ELSE b

\* F applied to the value of v, computed once
With(v, F(_)) == CHOOSE y \in {F(x) : x \in {v}} : TRUE

Return(st, v, log, depth) ==
  [st |-> st, v |-> v, log |-> log, raised |-> "", depth |-> depth, used |-> TRUE]

Raise(st, exc, log, depth) ==
  [st |-> st, v |-> NoneV, log |-> log, raised |-> exc, depth |-> depth, used |-> TRUE]

\* The return values of _get_field_data: None, or (name, v, short_desc)
NoRet == [kind |-> "None"]
Triple(name, v, short_desc) ==
  [kind |-> "tuple", name |-> name, v |-> v, short_desc |-> short_desc]

\* res[key] = value
setitem(m, key, value) ==
  [k \in DOMAIN m \cup {key} |-> IF k = key THEN value ELSE m[k]]

\* Elements of a field-set: a name (basestring) or a pair (name, fields)
N(name) == [str |-> TRUE, name |-> name]
G(name, fields) == [str |-> FALSE, name |-> name, fields |-> fields]

\* History record of one nested json_data call: who resolved which field,
\* under which traversal (trav: the parent was projecting its simple
\* field-set), the mode computed at lines 164-169 (mode) and the mode the
\* related instance's json_data then read (used).
Call(self, x, field, dotted, many, trav, mode, used, d) ==
  [parent |-> self, child |-> x, field |-> field, dotted |-> dotted, many |-> many,
   trav |-> trav, mode |-> mode, used |-> used, depth |-> d]

RECURSIVE json_data(_, _, _)
RECURSIVE full_info(_, _, _)
RECURSIVE simple_info(_, _, _)
RECURSIVE _get_fields_data(_, _, _, _, _)
RECURSIVE _get_field_data(_, _, _, _, _)
RECURSIVE related_loop(_, _, _, _, _, _, _, _, _)
RECURSIVE fields_loop(_, _, _, _, _, _, _, _, _)
RECURSIVE group_loop(_, _, _, _, _, _, _, _, _)

\* Lines 195-196 and 201-202: x._state.is_simple_info = is_simple_info,
\* then x.json_data()
project_related(st, x, mode, d) == json_data(SetStateMode(st, x, mode), x, d + 1)

\* Lines 199-203: for x in v.all(): ...; v = fks
related_loop(st, xs, mode, fks, ctx, trav, d, log, depth) ==
  IF xs = <<>> THEN Return(st, List(fks), log, depth)
  ELSE With(project_related(st, Head(xs), mode, d), LAMBDA r :
         LET e == Call(ctx.self, Head(xs), ctx.field, ctx.dotted, TRUE, trav, mode,
                       r.used, d + 1)
             log2 == log \o <<e>> \o r.log
             depth2 == Max(depth, r.depth)
         IN IF r.raised # ""
            THEN Raise(r.st, r.raised, log2, depth2)
            ELSE related_loop(r.st, Tail(xs), mode, Append(fks, r.v), ctx, trav, d,
                              log2, depth2))

\* Lines 163-198 of _get_field_data: what the name resolves to on self,
\* before any related instance is touched.  is_simple is the mode of lines
\* 164-169: from the qualifier of a dotted name, else from self's own state.
resolve(st, self, name) ==
  LET dotted == find_dot(name)
      parts == split(name)
  IN
  IF dotted /\ Len(parts) # 2
  THEN [kind |-> "ValueError"]               \* name, extra = name.split('.')
  ELSE
  LET base == parts[1]
      extra == IF dotted THEN parts[2] ELSE "simple"
      is_simple == IF dotted THEN extra # "full" ELSE StateMode(st, self)
      field == find_field(ClassOf(self), base)
      short_desc == IF field # NoneV THEN field.verbose_name ELSE ""
      v == AttrTable(self)[base]
      at(kind, xs) == [kind |-> kind, base |-> base, dotted |-> dotted, extra |-> extra,
                       is_simple |-> is_simple, short_desc |-> short_desc, xs |-> xs]
  IN
  IF ~hasattr(self, base) THEN at("absent", <<>>)
  ELSE IF ~IsTrue(v) THEN at("falsy", <<>>)
  ELSE IF v.kind = "method" THEN at("method", <<>>)
  ELSE IF IsForeignKey(field)
  THEN IF extra \notin {"simple", "full"} THEN at("attribute", <<v.to>>)
       ELSE at("to_one", <<v.to>>)
  ELSE IF v.kind = "manager" THEN at("to_many", v.all)
  ELSE at("plain", <<>>)

\* Lines 172-173 returning (name, None, short_desc) for a missing attribute
absent_as_none(st, a, d) == Return(st, Triple(a.base, NoneV, a.short_desc), <<>>, d)

\* Lines 172-173: if not hasattr(self, name): return None
absent(st, a, d) == Return(st, NoRet, <<>>, d)

\* _get_field_data (lines 162-212)
_get_field_data(st, self, name, trav, d) ==
  With(resolve(st, self, name), LAMBDA a :
  CASE a.kind = "ValueError" -> Raise(st, "ValueError", <<>>, d)
    [] a.kind = "absent" -> absent(st, a, d)
    [] a.kind = "falsy" -> Return(st, Triple(a.base, NoneV, a.short_desc), <<>>, d)
    [] a.kind = "method" ->
         LET v == AttrTable(self)[a.base]
         IN Return(st, Triple(v.name, v.result, v.short_description), <<>>, d)
    [] a.kind = "attribute" ->
         Return(st, Triple(a.base, getattr_or_none(a.xs[1], a.extra), a.short_desc),
                <<>>, d)
    [] a.kind = "to_one" ->
         With(project_related(st, a.xs[1], a.is_simple, d), LAMBDA r :
           LET e == Call(self, a.xs[1], a.base, a.dotted, FALSE, trav, a.is_simple,
                         r.used, d + 1)
           IN IF r.raised # ""
              THEN Raise(r.st, r.raised, <<e>> \o r.log, r.depth)
              ELSE Return(r.st, Triple(a.base, r.v, a.short_desc), <<e>> \o r.log,
                          r.depth))
    [] a.kind = "to_many" ->
         With(related_loop(st, a.xs, a.is_simple, <<>>,
                           [self |-> self, field |-> a.base, dotted |-> a.dotted],
                           trav, d, <<>>, d),
              LAMBDA r : IF r.raised # "" THEN r
                         ELSE [r EXCEPT !.v = Triple(a.base, r.v, a.short_desc)])
    [] OTHER -> Return(st, Triple(a.base, AttrTable(self)[a.base], a.short_desc), <<>>, d))

\* Lines 229-235: for field in fields, into res[name] and comments[name]
group_loop(st, self, fields, sub, subc, trav, d, log, depth) ==
  IF fields = <<>> THEN Return(st, [res |-> sub, comments |-> subc], log, depth)
  ELSE With(_get_field_data(st, self, Head(fields), trav, d), LAMBDA r :
         LET log2 == log \o r.log
             depth2 == Max(depth, r.depth)
         IN IF r.raised # "" THEN Raise(r.st, r.raised, log2, depth2)
            ELSE IF r.v = NoRet
            THEN group_loop(r.st, self, Tail(fields), sub, subc, trav, d, log2, depth2)
            ELSE group_loop(r.st, self, Tail(fields),
                            setitem(sub, r.v.name, r.v.v),
                            IF show_json_comment(ClassOf(self))
                            THEN setitem(subc, r.v.name, Value(r.v.short_desc)) ELSE subc,
                            trav, d, log2, depth2))

\* Lines 217-239: for fields in fieldset, then the _comments entry
fields_loop(st, self, fieldset, res, comments, trav, d, log, depth) ==
  IF fieldset = <<>>
  THEN Return(st,
              Map(IF show_json_comment(ClassOf(self))
                  THEN setitem(res, "_comments", Map(comments)) ELSE res),
              log, depth)
  ELSE LET fields == Head(fieldset) IN
       IF fields.str
       THEN With(_get_field_data(st, self, fields.name, trav, d), LAMBDA r :
              LET log2 == log \o r.log
                  depth2 == Max(depth, r.depth)
              IN IF r.raised # "" THEN Raise(r.st, r.raised, log2, depth2)
                 ELSE IF r.v = NoRet
                 THEN fields_loop(r.st, self, Tail(fieldset), res, comments, trav, d,
                                  log2, depth2)
                 ELSE fields_loop(r.st, self, Tail(fieldset),
                                  setitem(res, r.v.name, r.v.v),
                                  IF show_json_comment(ClassOf(self))
                                  THEN setitem(comments, r.v.name, Value(r.v.short_desc))
                                  ELSE comments,
                                  trav, d, log2, depth2))
       ELSE With(group_loop(st, self, fields.fields, EmptyMap, EmptyMap, trav, d,
                            log, depth),
                 LAMBDA r :
                   IF r.raised # "" THEN r
                   ELSE fields_loop(r.st, self, Tail(fieldset),
                                    setitem(res, fields.name, Map(r.v.res)),
                                    setitem(comments, fields.name, Map(r.v.comments)),
                                    trav, d, r.log, r.depth))

\* _get_fields_data (lines 214-239)
_get_fields_data(st, self, fieldset, trav, d) ==
  fields_loop(st, self, fieldset, EmptyMap, EmptyMap, trav, d, <<>>, d)

\* full_info (lines 241-242)
full_info(st, self, d) ==
  _get_fields_data(st, self, get_full_info_fields(fields_cfg, ClassOf(self)), FALSE, d)

\* simple_info (lines 244-245)
simple_info(st, self, d) ==
  _get_fields_data(st, self, get_simple_info_fields(fields_cfg, ClassOf(self)), TRUE, d)

\* json_data (lines 253-256); a call nested deeper than the interpreter
\* allows raises RuntimeError
json_data(st, self, d) ==
  IF d > RecursionLimit THEN Raise(st, "RuntimeError", <<>>, d)
  ELSE LET used == StateMode(st, self)
       IN With(IF used THEN simple_info(st, self, d) ELSE full_info(st, self, d),
               LAMBDA r : [r EXCEPT !.used = used])

(***************************************************************************)
(* Init and actions.                                                       *)
(***************************************************************************)
InitFields == <<[kind |-> "Field", name |-> "id", gen |-> 0, m2m |-> FALSE,
                 creation_counter |-> 0],
                [kind |-> "Field", name |-> "email", gen |-> 0, m2m |-> FALSE,
                 creation_counter |-> 1]>>
InitM2M == <<[kind |-> "Field", name |-> "tags", gen |-> 0, m2m |-> TRUE,
              creation_counter |-> 2]>>
InitAttrs == [n \in {"save", "show_json_comment"} \cup DunderNames |->
                CASE n = "save" -> CallableObj("function", "save", 0)
                  [] n = "show_json_comment" -> DataObj(n, 0, FALSE)
                  [] OTHER -> DataObj(n, 0, TRUE)]

\* The field-sets the entity classes are configured with
AuthorFull ==
  { <<N(<<"name">>), N(<<"book_set">>)>>,
    <<N(<<"missing">>),
      G("g", <<<<"nick">>, <<"missing", Dot, "full">>, <<"get_display">>>>),
      N(<<"name">>)>> }
AuthorSimple ==
  { <<>>,
    <<N(<<"name">>)>>,
    <<N(<<"book_set">>), N(<<"drafts">>)>> }
BookFull ==
  { <<N(<<"title">>), N(<<"author">>)>>,
    <<N(<<"title">>), N(<<"author", Dot, "name">>), N(<<"editor">>),
      N(<<"nope", Dot, "simple">>)>> }
BookSimple ==
  { <<>>,
    <<N(<<"title">>)>>,
    <<N(<<"author", Dot, "full">>)>> }

NoCall == [call |-> "none", self |-> "", pre |-> <<>>, st |-> <<>>, v |-> NoneV,
           raised |-> "", depth |-> 0, log |-> <<>>]

\* The patch engine before any patch_model call
PatchInit ==
  /\ local_fields = InitFields
  /\ local_many_to_many = InitM2M
  /\ attrs = InitAttrs
  /\ creation_counter = Len(InitFields) + Len(InitM2M)
  /\ n_patches = 0
  /\ n_members = 0
  /\ pre = [local_fields |-> InitFields, local_many_to_many |-> InitM2M,
            attrs |-> InitAttrs]
  /\ last_patch = <<>>
  /\ overrode = {}
  /\ bound = {}
  /\ before_last = <<>>

Threads == {1, 2}

\* The names of a field-set in the order _get_fields_data resolves them
RECURSIVE names_of(_)
names_of(fieldset) ==
  IF fieldset = <<>> THEN <<>>
  ELSE (IF Head(fieldset).str THEN <<Head(fieldset).name>> ELSE Head(fieldset).fields)
         \o names_of(Tail(fieldset))

\* No nested json_data call made yet
NoRec == [child |-> "", wrote |-> TRUE, used |-> TRUE, writer |-> 0]

\* A thread that runs no projection: stack holds one frame per projection
\* call in progress, the innermost last; last is the latest nested
\* json_data call the thread made (history), raised the exception that
\* ended its latest projection, calls the number of projections it started
Idle == [stack |-> <<>>, last |-> NoRec, raised |-> "", calls |-> 0]

\* The frame of a projection of self from the field-set of the mode simple:
\* rest are the names still to resolve, xs the related instances of the
\* current relationship field still to project, mode the view mode being
\* handed to them
Frame(self, simple) ==
  [pc |-> "fields", self |-> self, trav |-> simple,
   rest |-> names_of(IF simple THEN get_simple_info_fields(fields_cfg, ClassOf(self))
                     ELSE get_full_info_fields(fields_cfg, ClassOf(self))),
   xs |-> <<>>, mode |-> TRUE]

\* The entities as constructed: no instance has _state.is_simple_info set
ProjInit(af, as, bf, bs, st) ==
  /\ fields_cfg = [c \in Classes |->
                     IF c = "Author" THEN [full |-> af, simple |-> as]
                     ELSE [full |-> bf, simple |-> bs]]
  /\ is_simple_info = st
  /\ ret = NoCall
  /\ threads = [t \in Threads |-> Idle]
  /\ last_writer = <<>>

Init ==
  /\ PatchInit
  /\ ProjInit(<<N(<<"name">>)>>, <<>>, <<N(<<"title">>)>>, <<>>, <<>>)

\* Names the patch class binds to a callable
CallableNames(items) ==
  {items[i].name : i \in {j \in 1..Len(items) : IsCallable(items[j].obj)}}

\* Names the patch class sets as class attributes (everything but fields)
AttributeNames(items) ==
  {items[i].name : i \in {j \in 1..Len(items) : ~IsField(items[j].obj)}}

\* patch_model(Model, PatchClass), one call; members are the declared
\* members of the patch class and doc its docstring
Patch(members, doc) ==
  /\ n_members + Len(members) <= MaxMembers
  /\ \E items \in {iteritems(members, n_patches + 1, doc)} :
       /\ LET s == patch_model(Schema, items) IN
            /\ local_fields' = s.local_fields
            /\ local_many_to_many' = s.local_many_to_many
            /\ attrs' = s.attrs
       /\ creation_counter' = creation_counter + NumFields(items)
       /\ n_patches' = n_patches + 1
       /\ n_members' = n_members + Len(members)
       /\ pre' = Schema
       /\ last_patch' = items
       /\ overrode' = overrode \cup CallableNames(items)
       /\ bound' = bound \cup AttributeNames(items)
       /\ before_last' =
            [n \in DOMAIN before_last \cup CallableNames(items) |->
               IF n \in CallableNames(items) THEN getattr(attrs, n) ELSE before_last[n]]
       /\ UNCHANGED <<pvars, cvars>>

Next ==
  \E len \in 1..(MaxMembers - n_members) :
    \E members \in PatchClasses(n_patches + 1, len), doc \in Docstrings(n_patches + 1) :
      Patch(members, doc)

Spec == Init /\ [][Next]_vars

(***************************************************************************)
(* Claims about patch_model, checked under Spec.                           *)
(***************************************************************************)
\* The descriptors of a schema, from both field lists
Descriptors(s) ==
  {s.local_fields[i] : i \in 1..Len(s.local_fields)}
    \cup {s.local_many_to_many[i] : i \in 1..Len(s.local_many_to_many)}

\* The members of the last patch class
LastMembers == {last_patch[i] : i \in 1..Len(last_patch)}

\* C1: for every field member named n of a patch: if the schema held a
\* descriptor named n before the patch, in the plain-field list or in the
\* many-to-many list, then after the patch the new descriptor has the old
\* one's creation_counter and the old one is in no field list any more.
C1_OrderPreserved ==
  \A m \in LastMembers : IsField(m.obj) =>
    \A old \in Descriptors(pre) : old.name = m.name =>
      /\ old \notin Descriptors(Schema)
      /\ \E new \in Descriptors(Schema) :
           /\ new.name = m.name /\ new.gen = n_patches
           /\ new.creation_counter = old.creation_counter

\* C4: after any sequence of patches of a schema whose descriptors had
\* distinct names, no two descriptors of the two field lists share a name.
C4_UniqueNames ==
  /\ \A i, j \in 1..Len(local_fields) :
       i # j => local_fields[i].name # local_fields[j].name
  /\ \A i, j \in 1..Len(local_many_to_many) :
       i # j => local_many_to_many[i].name # local_many_to_many[j].name
  /\ \A i \in 1..Len(local_fields), j \in 1..Len(local_many_to_many) :
       local_fields[i].name # local_many_to_many[j].name

\* C2 as stated: for every callable member named n of a patch (function,
\* property, staticmethod or classmethod), if the target exposed an
\* attribute n before the patch then afterwards n is the new callable and
\* n__overridden holds what n was before the patch.
C2_ShadowOfAnyAttribute ==
  \A m \in LastMembers :
    (IsCallable(m.obj) /\ m.name \in DOMAIN pre.attrs) =>
      /\ getattr(attrs, m.name) = __get__(m.obj)
      /\ class_dict(attrs, m.name \o Suffix) = getattr(pre.attrs, m.name)

\* The patch class binds neither the alias of n nor a name n is the alias of
NoAliasIn(items, n) ==
  \A i \in 1..Len(items) :
    IsField(items[i].obj) \/
      (items[i].name # n \o Suffix /\ items[i].name \o Suffix # n)

\* C2, amended: for every callable member named n of a patch, if the
\* attribute the target exposed as n before the patch was truthy (as every
\* method is) and the patch class binds no other attribute that is the
\* __overridden alias of n or has n as its alias, then afterwards n is the
\* new callable and n__overridden holds what getattr gave for n before the
\* patch.
C2_ShadowOfTruthyAttribute ==
  \A m \in LastMembers :
    (/\ IsCallable(m.obj)
     /\ Truthy(getattr(pre.attrs, m.name))
     /\ NoAliasIn(last_patch, m.name)) =>
      /\ getattr(attrs, m.name) = __get__(m.obj)
      /\ class_dict(attrs, m.name \o Suffix) = getattr(pre.attrs, m.name)

\* C2 witness: a patch has overridden the method save, which is now the new
\* function while save__overridden is the function save was before.
C2_Witness ==
  /\ \E m \in LastMembers : m.name = "save" /\ IsCallable(m.obj)
  /\ Truthy(getattr(pre.attrs, "save"))
  /\ NoAliasIn(last_patch, "save")
  /\ getattr(attrs, "save").gen = n_patches
  /\ class_dict(attrs, "save" \o Suffix) = getattr(pre.attrs, "save")

\* No patch has bound the alias of n, and n is the alias of no overridden name
NoAliasEver(n) ==
  /\ (n \o Suffix) \notin bound
  /\ \A m \in overrode : m \o Suffix # n

\* C3 as stated (for the names that were bound to an implementation before
\* the first patch, and patches that bind no alias): after any sequence of
\* patches, for every name n some patch overrode with a callable,
\* n__overridden is the implementation n had before the first patch.
C3_OriginalKept ==
  \A n \in overrode :
    (n \in DOMAIN InitAttrs /\ Truthy(InitAttrs[n]) /\ NoAliasEver(n)) =>
      class_dict(attrs, n \o Suffix) = getattr(InitAttrs, n)

\* C3, amended: after any sequence of patches, for every name n some patch
\* overrode with a callable while n was truthy, n__overridden is what n
\* was just before the most recent patch that overrode it (patches that
\* bind no alias of n).
C3_LatestKept ==
  \A n \in overrode :
    (Truthy(before_last[n]) /\ NoAliasEver(n)) =>
      class_dict(attrs, n \o Suffix) = before_last[n]

\* C3 witness: save was overridden by two patches; save__overridden is the
\* function the first patch installed, not the original one.
C3_Witness ==
  /\ n_patches = 2
  /\ "save" \in overrode /\ NoAliasEver("save")
  /\ before_last["save"].gen = 1
  /\ class_dict(attrs, "save" \o Suffix) = before_last["save"]
  /\ getattr(attrs, "save").gen = 2

(***************************************************************************)
(* SpecProj: the mixin's methods called on entities, one call at a time.   *)
(***************************************************************************)
InitProj ==
  /\ PatchInit
  /\ \E af \in AuthorFull, as \in AuthorSimple, bf \in BookFull, bs \in BookSimple :
       ProjInit(af, as, bf, bs, <<>>)

Returned(call, self, r) ==
  [call |-> call, self |-> self, pre |-> is_simple_info, st |-> r.st, v |-> r.v,
   raised |-> r.raised, depth |-> r.depth, log |-> r.log]

\* x.full_info()
FullInfo(x) ==
  /\ \E r \in {full_info(is_simple_info, x, 1)} :
       /\ is_simple_info' = r.st
       /\ ret' = Returned("full_info", x, r)
  /\ UNCHANGED <<fields_cfg, patchvars, cvars>>

\* x.simple_info()
SimpleInfo(x) ==
  /\ \E r \in {simple_info(is_simple_info, x, 1)} :
       /\ is_simple_info' = r.st
       /\ ret' = Returned("simple_info", x, r)
  /\ UNCHANGED <<fields_cfg, patchvars, cvars>>

\* x.json_data()
JsonData(x) ==
  /\ \E r \in {json_data(is_simple_info, x, 1)} :
       /\ is_simple_info' = r.st
       /\ ret' = Returned("json_data", x, r)
  /\ UNCHANGED <<fields_cfg, patchvars, cvars>>

\* x.simple() (lines 247-248)
Simple(x) ==
  /\ is_simple_info' = SetStateMode(is_simple_info, x, TRUE)
  /\ ret' = [NoCall EXCEPT !.call = "simple", !.self = x]
  /\ UNCHANGED <<fields_cfg, patchvars, cvars>>

\* x.full() (lines 250-251)
Full(x) ==
  /\ is_simple_info' = SetStateMode(is_simple_info, x, FALSE)
  /\ ret' = [NoCall EXCEPT !.call = "full", !.self = x]
  /\ UNCHANGED <<fields_cfg, patchvars, cvars>>

NextProj ==
  \E x \in Instances :
    \/ FullInfo(x)
    \/ SimpleInfo(x)
    \/ JsonData(x)
    \/ Simple(x)
    \/ Full(x)

SpecProj == InitProj /\ [][NextProj]_vars

(***************************************************************************)
(* Claims about the projection engine, checked under SpecProj.             *)
(***************************************************************************)
Projections == {"full_info", "simple_info", "json_data"}

\* The last call projected its simple field-set
RetSimple ==
  CASE ret.call = "full_info" -> FALSE
    [] ret.call = "simple_info" -> TRUE
    [] OTHER -> StateMode(ret.pre, ret.self)

\* The field-set the last call projected
RetFieldset ==
  IF RetSimple THEN get_simple_info_fields(fields_cfg, ClassOf(ret.self))
  ELSE get_full_info_fields(fields_cfg, ClassOf(ret.self))

\* The names of the top level of a field-set that are unqualified to-many
\* relationships of x
ToManyNames(fieldset, x) ==
  {Join(fieldset[i].name) :
     i \in {j \in 1..Len(fieldset) :
              /\ fieldset[j].str /\ ~find_dot(fieldset[j].name)
              /\ hasattr(x, Join(fieldset[j].name))
              /\ AttrTable(x)[Join(fieldset[j].name)].kind = "manager"}}

\* C5: for every entry point and every prior view mode, an unqualified
\* to-many field projects to one nested mapping per related entity, each
\* built in the view mode (simple or full field-set) of the parent
\* traversal that projects the field.
C5_ChildrenFollowTraversal ==
  (ret.call \in Projections /\ ret.raised = "") =>
    /\ \A n \in ToManyNames(RetFieldset, ret.self) :
         /\ ret.v.m[n].kind = "list"
         /\ Len(ret.v.m[n].l) = Len(AttrTable(ret.self)[n].all)
    /\ \A k \in 1..Len(ret.log) :
         (ret.log[k].many /\ ~ret.log[k].dotted) => ret.log[k].used = ret.log[k].trav

\* A name of a field-set whose attribute x lacks
IsAbsent(name, x) == ~hasattr(x, split(name)[1])

\* A field-set without the names x lacks
RECURSIVE PruneNames(_, _)
PruneNames(names, x) ==
  IF names = <<>> THEN <<>>
  ELSE (IF IsAbsent(Head(names), x) THEN <<>> ELSE <<Head(names)>>)
         \o PruneNames(Tail(names), x)

RECURSIVE Prune(_, _)
Prune(fieldset, x) ==
  IF fieldset = <<>> THEN <<>>
  ELSE LET e == Head(fieldset)
       IN (IF e.str
           THEN (IF IsAbsent(e.name, x) THEN <<>> ELSE <<e>>)
           ELSE <<G(e.name, PruneNames(e.fields, x))>>)
            \o Prune(Tail(fieldset), x)

\* The keys under which the absent names of a field-set would appear
AbsentKeys(names, x) ==
  {split(names[i])[1] : i \in {j \in 1..Len(names) : IsAbsent(names[j], x)}}

\* The names at the top level of a field-set, groups left out
RECURSIVE TopNames(_)
TopNames(fieldset) ==
  IF fieldset = <<>> THEN <<>>
  ELSE (IF Head(fieldset).str THEN <<Head(fieldset).name>> ELSE <<>>)
         \o TopNames(Tail(fieldset))

\* C6: an element of a field-set (bare, dot-qualified or inside a group)
\* whose field name the instance lacks is omitted: the projection returns
\* what it returns for the field-set without that element, raising nothing
\* more, with no key for the element and every other element projected.
C6_AbsentOmitted ==
  ret.call \in Projections =>
    /\ \E r \in {_get_fields_data(ret.pre, ret.self, Prune(RetFieldset, ret.self),
                                  RetSimple, 1)} :
         /\ ret.v = r.v
         /\ ret.raised = r.raised
         /\ ret.st = r.st
    /\ ret.raised # "ValueError"
    /\ ret.raised = "" =>
         /\ \A key \in AbsentKeys(TopNames(RetFieldset), ret.self) :
              key \notin DOMAIN ret.v.m
         /\ \A i \in 1..Len(RetFieldset) :
              ~RetFieldset[i].str =>
                /\ RetFieldset[i].name \in DOMAIN ret.v.m
                /\ \A key \in AbsentKeys(RetFieldset[i].fields, ret.self) :
                     key \notin DOMAIN ret.v.m[RetFieldset[i].name].m

\* C6 witness: a1.full_info() over a field-set that names the missing
\* attribute bare and dot-qualified inside a group: both are left out, the
\* rest is there.
C6_Witness ==
  /\ ret.call = "full_info" /\ ret.self = "a1" /\ ret.raised = ""
  /\ AbsentKeys(TopNames(RetFieldset), "a1") = {"missing"}
  /\ \E i \in 1..Len(RetFieldset) :
       ~RetFieldset[i].str /\ AbsentKeys(RetFieldset[i].fields, "a1") = {"missing"}
  /\ DOMAIN ret.v.m = {"g", "name"}
  /\ DOMAIN ret.v.m["g"].m = {"nick", "display"}

\* C7: for every instance of a class whose simple_info_fields is empty,
\* simple_info() returns, from the same view modes, the mapping full_info()
\* returns, nested mappings included, and leaves the same view modes.
C7_SimpleFallsBackToFull ==
  \A x \in Instances :
    fields_cfg[ClassOf(x)].simple = <<>> =>
      \E rs \in {simple_info(is_simple_info, x, 1)},
         rf \in {full_info(is_simple_info, x, 1)} :
        /\ rs.v = rf.v
        /\ rs.raised = rf.raised
        /\ rs.st = rf.st

\* C7 witness: a1.simple_info() with Author.simple_info_fields empty
\* returned the full mapping, the books' mappings nested in it.
C7_Witness ==
  /\ ret.call = "simple_info" /\ ret.self = "a1" /\ ret.raised = ""
  /\ fields_cfg["Author"].simple = <<>>
  /\ "book_set" \in DOMAIN ret.v.m
  /\ Len(ret.v.m["book_set"].l) = 2
  /\ "title" \in DOMAIN ret.v.m["book_set"].l[1].m
  /\ ret.v = full_info(ret.pre, "a1", 1).v

\* C9: every call of full_info, simple_info and json_data returns, also on
\* a graph whose relationships form a cycle between instances whose
\* field-sets name each other: the nesting of projection calls stays
\* bounded, it never runs into the interpreter's recursion limit.
C9_Terminates ==
  ret.call \in Projections => ret.raised # "RuntimeError"

\* C10: a projection is a pure read: full_info, simple_info and json_data
\* leave the view mode of every instance as it was; only simple() and
\* full() change one.
C10_PureRead ==
  ret.call \in Projections =>
    \A x \in Instances : StateMode(ret.st, x) = StateMode(ret.pre, x)

(***************************************************************************)
(* SpecConc: two threads that project entities they share (cached          *)
(* instances), one projection after the other.  The code takes no lock, so *)
(* the threads interleave between any two accesses of an instance's        *)
(* _state.is_simple_info.  Each step of a thread makes one such access at  *)
(* most: the read of line 254 (Start, CallJson), the read of line 169      *)
(* (Field), the write of lines 195 and 201 (Write).  Nested json_data      *)
(* calls run step by step like the outermost one, on the thread's stack.   *)
(***************************************************************************)
\* View modes at the start: none set, or b1 left full by an earlier b1.full()
InitModes == {<<>>, [x \in {"b1"} |-> FALSE]}

\* The instances the threads call the mixin on (b2 is reached through a1)
Roots == {"a1", "b1"}

InitConc ==
  /\ PatchInit
  /\ \E af \in AuthorFull, bf \in BookFull, st \in InitModes :
       ProjInit(af, <<>>, bf, <<>>, st)

\* The innermost call of thread t
Top(t) == threads[t].stack[Len(threads[t].stack)]

\* The stack of thread t with its innermost frame replaced
SetTop(t, frame) == [threads[t].stack EXCEPT ![Len(threads[t].stack)] = frame]

\* The projections started so far
Started == threads[1].calls + threads[2].calls

\* Thread t calls x.full_info(), x.simple_info() or x.json_data(); json_data
\* reads x's own mode here (line 254)
Start(t, x, entry) ==
  /\ threads[t].stack = <<>>
  /\ Started < MaxProjections
  /\ LET simple == CASE entry = "full_info" -> FALSE
                     [] entry = "simple_info" -> TRUE
                     [] OTHER -> StateMode(is_simple_info, x)
     IN threads' = [threads EXCEPT ![t] =
                      [Idle EXCEPT !.stack = <<Frame(x, simple)>>,
                                   !.calls = threads[t].calls + 1]]
  /\ UNCHANGED <<is_simple_info, last_writer, fields_cfg, ret, patchvars>>

\* Thread t resolves the next name of the field-set of its innermost call
\* (lines 162-198): a relationship leads to the write and call steps,
\* anything else is done at once
Field(t) ==
  /\ threads[t].stack # <<>>
  /\ Top(t).pc = "fields" /\ Top(t).rest # <<>>
  /\ LET th == Top(t)
         a == resolve(is_simple_info, th.self, Head(th.rest))
     IN threads' = [threads EXCEPT ![t] =
          IF a.kind = "ValueError"
          THEN [@ EXCEPT !.stack = <<>>, !.raised = "ValueError"]
          ELSE IF a.kind \in {"to_one", "to_many"} /\ a.xs # <<>>
          THEN [@ EXCEPT !.stack = SetTop(t, [th EXCEPT !.pc = "write", !.rest = Tail(@),
                                                        !.xs = a.xs, !.mode = a.is_simple])]
          ELSE [@ EXCEPT !.stack = SetTop(t, [th EXCEPT !.rest = Tail(@)])]]
  /\ UNCHANGED <<is_simple_info, last_writer, fields_cfg, ret, patchvars>>

\* Lines 195 and 201: x._state.is_simple_info = is_simple_info
Write(t) ==
  /\ threads[t].stack # <<>>
  /\ Top(t).pc = "write"
  /\ is_simple_info' = SetStateMode(is_simple_info, Head(Top(t).xs), Top(t).mode)
  /\ last_writer' = setitem(last_writer, Head(Top(t).xs), t)
  /\ threads' = [threads EXCEPT ![t].stack = SetTop(t, [Top(t) EXCEPT !.pc = "call"])]
  /\ UNCHANGED <<fields_cfg, ret, patchvars>>

\* Lines 196 and 202: x.json_data() is entered; it reads x's mode back
\* (line 254) and starts on the field-set of that mode.  A call nested
\* deeper than the interpreter allows raises RuntimeError, which ends the
\* thread's projection.
CallJson(t) ==
  /\ threads[t].stack # <<>>
  /\ Top(t).pc = "call"
  /\ LET x == Head(Top(t).xs)
         used == StateMode(is_simple_info, x)
     IN threads' = [threads EXCEPT ![t] =
          IF Len(@.stack) + 1 > RecursionLimit
          THEN [@ EXCEPT !.stack = <<>>, !.raised = "RuntimeError"]
          ELSE [@ EXCEPT !.stack = Append(@, Frame(x, used)),
                         !.last = [child |-> x, wrote |-> Top(t).mode, used |-> used,
                                   writer |-> last_writer[x]]]]
  /\ UNCHANGED <<is_simple_info, last_writer, fields_cfg, ret, patchvars>>

\* The field-set of the innermost call is exhausted: the call returns
\* (line 239), and its caller goes on with the next related instance or
\* the next name
Finish(t) ==
  /\ threads[t].stack # <<>>
  /\ Top(t).pc = "fields" /\ Top(t).rest = <<>>
  /\ LET callers == SubSeq(threads[t].stack, 1, Len(threads[t].stack) - 1)
     IN threads' = [threads EXCEPT ![t].stack =
          IF callers = <<>> THEN <<>>
          ELSE LET caller == callers[Len(callers)]
               IN [callers EXCEPT ![Len(callers)] =
                     [caller EXCEPT !.xs = Tail(caller.xs),
                                    !.pc = IF Len(caller.xs) > 1 THEN "write"
                                           ELSE "fields"]]]
  /\ UNCHANGED <<is_simple_info, last_writer, fields_cfg, ret, patchvars>>

NextConc ==
  \E t \in Threads :
    \/ \E x \in Roots, entry \in {"full_info", "simple_info", "json_data"} :
         Start(t, x, entry)
    \/ Field(t)
    \/ Write(t)
    \/ CallJson(t)
    \/ Finish(t)

SpecConc == InitConc /\ [][NextConc]_vars

(***************************************************************************)
(* Claims about interleaved projections, checked under SpecConc.           *)
(***************************************************************************)
\* C8: a traversal that sets a related instance's view mode and then calls
\* its json_data projects it in the mode it set unless another traversal
\* set the instance's mode in between; then it projects in the other's mode.
C8_OwnModeUnlessOverwritten ==
  \A t \in Threads :
    LET rec == threads[t].last
    IN (rec # NoRec /\ rec.writer = t) => rec.used = rec.wrote

\* C8 witness: one thread projected a related instance in a mode it had not
\* set, the mode the other thread, about to call json_data on the same
\* instance, had written over it.
C8_Witness ==
  \E t, u \in Threads :
    /\ t # u
    /\ threads[t].last # NoRec
    /\ threads[t].last.used # threads[t].last.wrote
    /\ threads[t].last.writer = u
    /\ threads[u].stack # <<>>
    /\ Top(u).pc = "call"
    /\ Head(Top(u).xs) = threads[t].last.child
    /\ Top(u).mode = threads[t].last.used
====
